---- MODULE Spec2Model ----
(***************************************************************************)
(* A model of the Pong game loop of src/src/main.rs (Bevy + Rapier).       *)
(*                                                                         *)
(* One frame is: the Update systems (move_paddle, detect_reset, ball_hit,  *)
(* in any order), then the PostUpdate systems (reset_ball, score and the   *)
(* physics step installed by RapierPhysicsPlugin, in any order).  Floats   *)
(* are modelled by integers: every position, velocity and frame step used  *)
(* here is a whole number of world units.                                  *)
(***************************************************************************)
EXTENDS Integers, Sequences, FiniteSets, TLC

\* ------------------------------------------------------------- constants

WINDOW_WIDTH == 1280
WINDOW_HEIGHT == 720
BALL_RADIUS == 25
\* Collider::cuboid(5.0, 75.0) of a paddle, Collider::cuboid(3.0, ..) of a goal
PADDLE_HALF_WIDTH == 5
PADDLE_HALF_HEIGHT == 75
BORDER_HALF_THICKNESS == 3
\* the 100.0 of 100.0 * time.delta_seconds(), in units per second
PADDLE_SPEED == 100

\* --------------------------------------------------------------- bounds

\* the score system is not run past this score
MaxScore == 2
\* the physics step is not run once the ball is further out than this
MaxBallX == 700
\* the physics step is not run on a ball that is faster than this
MaxSpeed == 120

\* time.delta_seconds() of a frame, in hundredths of a second
Steps == {0, 285, 600}
\* the physics step's own time step, in hundredths of a second
PhysSteps == {35, 315}

\* ------------------------------------------------------------ data model

Players == {"Player1", "Player2"}

StartSpeed(player) ==
    IF player = "Player1" THEN <<100, 0>> ELSE <<-100, 0>>

GetColour(player) ==
    IF player = "Player1" THEN "RED" ELSE "GREEN"

\* the entities a ball can touch: the two walls, the two goal sensors and
\* the two paddles
Walls == {"WallTop", "WallBottom"}
Goals == {"Goal1", "Goal2"}
PaddleEntities == {"Paddle1", "Paddle2"}
Entities == Walls \cup Goals \cup PaddleEntities

\* GoalPlayer with the two Player components exchanged
GoalPlayerExchanged(e) == IF e = "Goal1" THEN "Player2" ELSE "Player1"
\* GoalX with the two translations exchanged
GoalXExchanged(e) == IF e = "Goal1" THEN -(WINDOW_WIDTH \div 2) ELSE WINDOW_WIDTH \div 2

\* the Player component of a goal sensor (spawn_border)
GoalPlayer(e) == IF e = "Goal1" THEN "Player1" ELSE "Player2"
GoalX(e) == IF e = "Goal1" THEN WINDOW_WIDTH \div 2 ELSE -(WINDOW_WIDTH \div 2)
WallY(e) == IF e = "WallTop" THEN WINDOW_HEIGHT \div 2 ELSE -(WINDOW_HEIGHT \div 2)

\* the Player component of a paddle (spawn_players)
PaddlePlayer(e) == IF e = "Paddle1" THEN "Player1" ELSE "Player2"
PaddleX(e) ==
    IF e = "Paddle1" THEN -(WINDOW_WIDTH \div 2) + 20 ELSE (WINDOW_WIDTH \div 2) - 20
MoveUpKey(e) == IF e = "Paddle1" THEN "KeyW" ELSE "ArrowUp"
MoveDownKey(e) == IF e = "Paddle1" THEN "KeyS" ELSE "ArrowDown"
PaddleKeys == {"KeyW", "KeyS", "ArrowUp", "ArrowDown"}

Abs(n) == IF n < 0 THEN -n ELSE n

\* f32::clamp
Clamp(v, lo, hi) == IF v < lo THEN lo ELSE IF v > hi THEN hi ELSE v

\* i32::to_string
Digit(k) ==
    CASE k = 0 -> "0" [] k = 1 -> "1" [] k = 2 -> "2" [] k = 3 -> "3"
      [] k = 4 -> "4" [] k = 5 -> "5" [] k = 6 -> "6" [] k = 7 -> "7"
      [] k = 8 -> "8" [] OTHER -> "9"

RECURSIVE I32ToString(_)
I32ToString(n) ==
    IF n < 0 THEN "-" \o I32ToString(-n)
    ELSE IF n < 10 THEN Digit(n)
    ELSE I32ToString(n \div 10) \o Digit(n % 10)

\* every order in which a HashSet's iterator may yield its elements
RECURSIVE Orders(_)
Orders(S) ==
    IF S = {} THEN {<<>>}
    ELSE UNION {{<<e>> \o o : o \in Orders(S \ {e})} : e \in S}

\* HashMap<Player, i32>::get(..).cloned().unwrap_or(0)
GetScore(s, player) == IF player \in DOMAIN s THEN s[player] ELSE 0

\* the entities carrying Ball: the one spawn_ball spawns, and the name a
\* second one would get
BallEntities == {"Ball", "Ball2"}
\* the entities the Startup systems spawn
Spawned == {"Ball"} \cup Entities

ResetBall(player) == [kind |-> "ResetBall", player |-> player]
GainPoint(player) == [kind |-> "GainPoint", player |-> player]

\* ----------------------------------------------------------------- state

VARIABLES
    paddle_y,    \* Transform.translation.y of each paddle, by paddle entity
    ball_pos,    \* Transform.translation of the ball, <<x, y, z>>
    ball_vel,    \* Velocity.linvel of the ball, <<vx, vy>>
    ball_color,  \* Sprite.color of the ball
    touching,    \* CollidingEntities of the ball
    Score,       \* the Score resource: a map from Player to i32
    texts,       \* the (Text, Player) entities: <<[owner, value], ..>>
    events,      \* Events<GameEvents>: both buffers, oldest first
    cursor,      \* each EventReader's count of events of `events` it has read
    stage,       \* the schedule that is running: "Update" or "PostUpdate"
    ran,         \* the systems of the running schedule that have run
    \* history variables, written by the model only
    space,       \* just_pressed(Space) as detect_reset read it this frame
    seen,        \* the touching set as detect_reset read it this frame
    sent,        \* the events detect_reset sent this frame
    score0,      \* Score at the start of the frame
    gained,      \* GainPoint(P) events the score system has processed, per P
    stepped,     \* the physics step ran after reset_ball in this frame
    pre,         \* ball, Score and texts at the end of Update, until the physics
                 \* step writes to the ball (<<>> otherwise)
    moved,       \* what a logged step of move_paddle read: the positions, the
                 \* keys held and the frame time (<<>> when none is logged)
    alive        \* the entities of the world that the model follows

vars == <<paddle_y, ball_pos, ball_vel, ball_color, touching, Score, texts,
          events, cursor, stage, ran, space, seen, sent, score0, gained, stepped, pre,
          moved, alive>>

UpdateSystems == {"move_paddle", "detect_reset", "ball_hit"}
Consumers == {"reset_ball", "score"}
PostUpdateSystems == Consumers \cup {"physics"}

Snapshot == [pos |-> ball_pos, vel |-> ball_vel, score |-> Score, texts |-> texts]

\* ------------------------------------------------------------- systems

\* MovePaddleY without the clamp that follows the down adjustment
MovePaddleYNoDownClamp(y, up, down, dt) ==
    LET d == (PADDLE_SPEED * dt) \div 100
        lo == -(WINDOW_HEIGHT \div 2) + PADDLE_HALF_HEIGHT
        hi == (WINDOW_HEIGHT \div 2) - PADDLE_HALF_HEIGHT
        y1 == IF up THEN Clamp(y + d, lo, hi) ELSE y
    IN  IF down THEN y1 - d ELSE y1

\* MovePaddleY with both adjustments made first and one clamp at the end
MovePaddleYClampOnce(y, up, down, dt) ==
    LET d == (PADDLE_SPEED * dt) \div 100
        lo == -(WINDOW_HEIGHT \div 2) + PADDLE_HALF_HEIGHT
        hi == (WINDOW_HEIGHT \div 2) - PADDLE_HALF_HEIGHT
        y1 == IF up THEN y + d ELSE y
        y2 == IF down THEN y1 - d ELSE y1
    IN  Clamp(y2, lo, hi)

\* move_paddle, for one paddle: the up adjustment and its clamp, then the
\* down adjustment and its clamp; dt is the frame time in hundredths of a second
MovePaddleY(y, up, down, dt) ==
    LET d == (PADDLE_SPEED * dt) \div 100
        lo == -(WINDOW_HEIGHT \div 2) + PADDLE_HALF_HEIGHT
        hi == (WINDOW_HEIGHT \div 2) - PADDLE_HALF_HEIGHT
        y1 == IF up THEN Clamp(y + d, lo, hi) ELSE y
    IN  IF down THEN Clamp(y1 - d, lo, hi) ELSE y1

\* GoalEvents without the send of GainPoint
RECURSIVE GoalEventsResetOnly(_)
GoalEventsResetOnly(hits) ==
    IF hits = <<>> THEN <<>>
    ELSE (IF Head(hits) \in Goals
          THEN <<ResetBall(GoalPlayer(Head(hits)))>>
          ELSE <<>>) \o GoalEventsResetOnly(Tail(hits))

\* GoalEvents without the send of ResetBall
RECURSIVE GoalEventsGainOnly(_)
GoalEventsGainOnly(hits) ==
    IF hits = <<>> THEN <<>>
    ELSE (IF Head(hits) \in Goals
          THEN <<GainPoint(GoalPlayer(Head(hits)))>>
          ELSE <<>>) \o GoalEventsGainOnly(Tail(hits))

\* GoalEvents that returns after the first goal sensor among the hits
RECURSIVE GoalEventsFirstOnly(_)
GoalEventsFirstOnly(hits) ==
    IF hits = <<>> THEN <<>>
    ELSE IF Head(hits) \in Goals
         THEN <<ResetBall(GoalPlayer(Head(hits))), GainPoint(GoalPlayer(Head(hits)))>>
         ELSE GoalEventsFirstOnly(Tail(hits))

\* detect_reset: the events it sends, given just_pressed(Space) and the
\* ball's hits in the order the set's iterator yields them
RECURSIVE GoalEvents(_)
GoalEvents(hits) ==
    IF hits = <<>> THEN <<>>
    ELSE (IF Head(hits) \in Goals
          THEN <<ResetBall(GoalPlayer(Head(hits))), GainPoint(GoalPlayer(Head(hits)))>>
          ELSE <<>>) \o GoalEvents(Tail(hits))

\* DetectResetEvents without the return after the manual reset
DetectResetEventsNoReturn(just_pressed, hits) ==
    (IF just_pressed THEN <<ResetBall("Player1")>> ELSE <<>>) \o GoalEvents(hits)

DetectResetEvents(just_pressed, hits) ==
    IF just_pressed THEN <<ResetBall("Player1")>> ELSE GoalEvents(hits)

\* BallHitColour whose query lacks the With<Paddle> filter: any entity that
\* carries a Player (a paddle or a goal sensor) recolours the ball
RECURSIVE BallHitColourAnyPlayer(_, _)
BallHitColourAnyPlayer(colour, hits) ==
    IF hits = <<>> THEN colour
    ELSE IF Head(hits) \in PaddleEntities THEN GetColour(PaddlePlayer(Head(hits)))
    ELSE IF Head(hits) \in Goals THEN GetColour(GoalPlayer(Head(hits)))
    ELSE BallHitColourAnyPlayer(colour, Tail(hits))

\* ball_hit: the ball's colour after the scan of its hits
RECURSIVE BallHitColour(_, _)
BallHitColour(colour, hits) ==
    IF hits = <<>> THEN colour
    ELSE IF Head(hits) \in PaddleEntities THEN GetColour(PaddlePlayer(Head(hits)))
    ELSE BallHitColour(colour, Tail(hits))

\* ResetBallOne with only x and y of the translation set to zero
ResetBallOneKeepsZ(b, ev) ==
    IF ev.kind = "ResetBall"
    THEN [pos |-> <<0, 0, b.pos[3]>>, vel |-> StartSpeed(ev.player)]
    ELSE b

\* reset_ball: one event applied to the ball, b = [pos, vel]
ResetBallOne(b, ev) ==
    IF ev.kind = "ResetBall"
    THEN [pos |-> <<0, 0, 0>>, vel |-> StartSpeed(ev.player)]
    ELSE b

\* ResetBallEntities of a reset that spawns a fresh ball at the origin
ResetBallEntitiesSpawning(es, evs) ==
    IF \E i \in 1..Len(evs) : evs[i].kind = "ResetBall" THEN es \cup {"Ball2"} ELSE es

\* reset_ball: the entities after the system ran on the entities es; it takes
\* no Commands and writes through Query<(&mut Transform, &mut Velocity)> only
ResetBallEntities(es, evs) == es

\* ResetBallAll that stops after the first ResetBall it applies
RECURSIVE ResetBallAllFirstOnly(_, _)
ResetBallAllFirstOnly(b, evs) ==
    IF evs = <<>> THEN b
    ELSE IF Head(evs).kind = "ResetBall" THEN ResetBallOne(b, Head(evs))
    ELSE ResetBallAllFirstOnly(b, Tail(evs))

\* reset_ball: the events its reader yields, in order
RECURSIVE ResetBallAll(_, _)
ResetBallAll(b, evs) ==
    IF evs = <<>> THEN b ELSE ResetBallAll(ResetBallOne(b, Head(evs)), Tail(evs))

\* AddPoint with insert(player, 1) in place of the increment
AddPointInsert(s, player) ==
    [q \in DOMAIN s \cup {player} |-> IF q = player THEN 1 ELSE s[q]]

\* *score.0.entry(*player).or_default() += 1
AddPoint(s, player) ==
    IF player \in DOMAIN s THEN [s EXCEPT ![player] = @ + 1] ELSE s @@ (player :> 1)

\* the first (Text, Player) entity owned by player gets the value
RECURSIVE WriteText(_, _, _)
WriteText(ts, player, value) ==
    IF ts = <<>> THEN <<>>
    ELSE IF Head(ts).owner = player
         THEN <<[Head(ts) EXCEPT !.value = value]>> \o Tail(ts)
         ELSE <<Head(ts)>> \o WriteText(Tail(ts), player, value)

\* ScoreOne that writes the score it read before the increment
ScoreOneStaleText(st, ev) ==
    IF ev.kind = "GainPoint"
    THEN [score |-> AddPoint(st.score, ev.player),
          texts |-> WriteText(st.texts, ev.player,
                              I32ToString(GetScore(st.score, ev.player)))]
    ELSE st

\* ScoreOne that gives up on a GainPoint whose player has no display
ScoreOneNeedsDisplay(st, ev) ==
    IF ev.kind = "GainPoint" /\ \E i \in 1..Len(st.texts) : st.texts[i].owner = ev.player
    THEN LET s == AddPoint(st.score, ev.player)
         IN  [score |-> s,
              texts |-> WriteText(st.texts, ev.player, I32ToString(GetScore(s, ev.player)))]
    ELSE st

\* score: one event applied to st = [score, texts]
ScoreOne(st, ev) ==
    IF ev.kind = "GainPoint"
    THEN LET s == AddPoint(st.score, ev.player)
         IN  [score |-> s,
              texts |-> WriteText(st.texts, ev.player, I32ToString(GetScore(s, ev.player)))]
    ELSE st

\* score: the events its reader yields, in order
RECURSIVE ScoreAll(_, _)
ScoreAll(st, evs) ==
    IF evs = <<>> THEN st ELSE ScoreAll(ScoreOne(st, Head(evs)), Tail(evs))

\* ReadFrom of a reader that keeps no position: it yields both buffers
ReadFromStart(reader) == 1

\* ReadFrom of one position shared by the two readers
ReadFromShared(reader) ==
    (IF cursor["reset_ball"] > cursor["score"]
     THEN cursor["reset_ball"] ELSE cursor["score"]) + 1

\* EventReader::read: the reader yields the events from the first one it has
\* not read yet
ReadFrom(reader) == cursor[reader] + 1

Unread(reader) == SubSeq(events, ReadFrom(reader), Len(events))

\* the history count of reads of each event, bumped for the events a reader reads
MarkRead(reader, field) ==
    [i \in 1..Len(events) |->
        IF i >= ReadFrom(reader) THEN [events[i] EXCEPT ![field] = @ + 1] ELSE events[i]]

\* the event without its history fields
Payload(e) == [kind |-> e.kind, player |-> e.player]
Payloads(evs) == [i \in 1..Len(evs) |-> Payload(evs[i])]

\* EventWriter::send: the event enters the current buffer
Sent(evs) == [i \in 1..Len(evs) |-> [kind |-> evs[i].kind, player |-> evs[i].player,
                                     age |-> 0, nR |-> 0, nS |-> 0]]

\* ------------------------------------------------------- the physics step

\* what the ball overlaps at <<x, y, z>>, from the colliders of spawn_border,
\* spawn_players and spawn_ball (a ball against boxes, along each axis)
Overlaps(pos, py) ==
    {e \in Goals : Abs(pos[1] - GoalX(e)) <= BORDER_HALF_THICKNESS + BALL_RADIUS}
    \cup {e \in Walls : Abs(pos[2] - WallY(e)) <= BORDER_HALF_THICKNESS + BALL_RADIUS}
    \cup {e \in PaddleEntities :
            /\ Abs(pos[1] - PaddleX(e)) <= PADDLE_HALF_WIDTH + BALL_RADIUS
            /\ Abs(pos[2] - py[e]) <= PADDLE_HALF_HEIGHT + BALL_RADIUS}

\* the paddles whose face the ball reaches when it moves from x to x1 at height y
Reached(x, x1, y, py) ==
    {e \in PaddleEntities :
        /\ Abs(y - py[e]) <= PADDLE_HALF_HEIGHT + BALL_RADIUS
        /\ \/ x < PaddleX(e) - (PADDLE_HALF_WIDTH + BALL_RADIUS)
              /\ x1 >= PaddleX(e) - (PADDLE_HALF_WIDTH + BALL_RADIUS)
           \/ x > PaddleX(e) + (PADDLE_HALF_WIDTH + BALL_RADIUS)
              /\ x1 <= PaddleX(e) + (PADDLE_HALF_WIDTH + BALL_RADIUS)}

\* one step of t hundredths of a second on the ball b = [pos, vel]: the ball
\* moves along its velocity; a paddle in its way stops it at the paddle's face
\* and sends it back with the ball's restitution of 1.2 (combine rule Max);
\* the goal sensors do not stop it
Integrate(b, t, py) ==
    LET x == b.pos[1]
        y == b.pos[2]
        x1 == x + (b.vel[1] * t) \div 100
        y1 == y + (b.vel[2] * t) \div 100
        hit == Reached(x, x1, y, py)
    IN  IF hit = {}
        THEN [pos |-> <<x1, y1, b.pos[3]>>, vel |-> b.vel]
        ELSE LET e == CHOOSE p \in hit : TRUE
                 face == IF x < PaddleX(e)
                         THEN PaddleX(e) - (PADDLE_HALF_WIDTH + BALL_RADIUS)
                         ELSE PaddleX(e) + (PADDLE_HALF_WIDTH + BALL_RADIUS)
             IN  [pos |-> <<face, y, b.pos[3]>>,
                  vel |-> <<-((b.vel[1] * 12) \div 10), b.vel[2]>>]

\* ------------------------------------------------------------- the frame

\* the Startup systems: spawn_score, spawn_players, spawn_border, spawn_ball,
\* and init_resource::<Score>()
Init ==
    /\ paddle_y = [e \in PaddleEntities |-> 0]
    /\ ball_pos = <<-300, 0, 1>>
    /\ ball_vel = <<100, 0>>
    /\ ball_color = "WHITE"
    /\ touching = {}
    /\ Score = <<>>
    /\ texts = <<[owner |-> "Player1", value |-> "0"], [owner |-> "Player2", value |-> "0"]>>
    /\ events = <<>>
    /\ cursor = [r \in Consumers |-> 0]
    /\ stage = "Update"
    /\ ran = {}
    /\ space = FALSE
    /\ seen = {}
    /\ sent = <<>>
    /\ score0 = Score
    /\ gained = [p \in Players |-> 0]
    /\ stepped = FALSE
    /\ pre = <<>>
    /\ moved = <<>>
    /\ alive = Spawned

\* move_paddle, run with the keys `held` and the frame time dt
MovePaddleWith(held, dt) ==
    /\ stage = "Update"
    /\ "move_paddle" \notin ran
    /\ paddle_y' = [e \in PaddleEntities |->
                        MovePaddleY(paddle_y[e], MoveUpKey(e) \in held,
                                    MoveDownKey(e) \in held, dt)]
    /\ ran' = ran \cup {"move_paddle"}
    /\ UNCHANGED <<ball_pos, ball_vel, ball_color, touching, Score, texts, events,
                   cursor, stage, space, seen, sent, score0, gained, stepped, pre, alive>>

\* move_paddle, with the keys held and the frame time of this frame
MovePaddle ==
    /\ \E held \in SUBSET PaddleKeys, dt \in Steps : MovePaddleWith(held, dt)
    /\ UNCHANGED moved

\* detect_reset, with just_pressed(Space) of this frame
DetectReset ==
    /\ stage = "Update"
    /\ "detect_reset" \notin ran
    /\ \E just_pressed \in BOOLEAN, hits \in Orders(touching) :
          /\ events' = events \o Sent(DetectResetEvents(just_pressed, hits))
          /\ sent' = DetectResetEvents(just_pressed, hits)
          /\ space' = just_pressed
    /\ seen' = touching
    /\ ran' = ran \cup {"detect_reset"}
    /\ UNCHANGED <<paddle_y, ball_pos, ball_vel, ball_color, touching, Score, texts,
                   cursor, stage, score0, gained, stepped, pre, moved, alive>>

\* ball_hit
BallHit ==
    /\ stage = "Update"
    /\ "ball_hit" \notin ran
    /\ \E hits \in Orders(touching) : ball_color' = BallHitColour(ball_color, hits)
    /\ ran' = ran \cup {"ball_hit"}
    /\ UNCHANGED <<paddle_y, ball_pos, ball_vel, touching, Score, texts, events,
                   cursor, stage, space, seen, sent, score0, gained, stepped, pre, moved, alive>>

\* the Update schedule is over, the PostUpdate schedule starts
EndUpdate ==
    /\ stage = "Update"
    /\ ran = UpdateSystems
    /\ stage' = "PostUpdate"
    /\ ran' = {}
    /\ pre' = Snapshot
    /\ UNCHANGED <<paddle_y, ball_pos, ball_vel, ball_color, touching, Score, texts,
                   events, cursor, space, seen, sent, score0, gained, stepped, moved, alive>>

\* reset_ball
RunResetBall ==
    /\ stage = "PostUpdate"
    /\ "reset_ball" \notin ran
    /\ LET b == ResetBallAll([pos |-> ball_pos, vel |-> ball_vel],
                             Payloads(Unread("reset_ball")))
       IN  /\ ball_pos' = b.pos
           /\ ball_vel' = b.vel
    /\ events' = MarkRead("reset_ball", "nR")
    /\ cursor' = [cursor EXCEPT !["reset_ball"] = Len(events)]
    /\ ran' = ran \cup {"reset_ball"}
    /\ stepped' = FALSE
    /\ alive' = ResetBallEntities(alive, Payloads(Unread("reset_ball")))
    /\ UNCHANGED <<paddle_y, ball_color, touching, Score, texts, stage, space, seen,
                   sent, score0, gained, pre, moved>>

\* the GainPoint(player) events among evs
Gains(evs, player) ==
    Cardinality({i \in 1..Len(evs) : evs[i] = GainPoint(player)})

\* score
RunScore ==
    /\ stage = "PostUpdate"
    /\ "score" \notin ran
    /\ LET st == ScoreAll([score |-> Score, texts |-> texts], Payloads(Unread("score")))
       IN  /\ \A p \in Players : GetScore(st.score, p) <= MaxScore
           /\ Score' = st.score
           /\ texts' = st.texts
    /\ gained' = [p \in Players |-> gained[p] + Gains(Payloads(Unread("score")), p)]
    /\ events' = MarkRead("score", "nS")
    /\ cursor' = [cursor EXCEPT !["score"] = Len(events)]
    /\ ran' = ran \cup {"score"}
    /\ UNCHANGED <<paddle_y, ball_pos, ball_vel, ball_color, touching, stage, space,
                   seen, sent, score0, stepped, pre, moved, alive>>

\* the physics step of RapierPhysicsPlugin: it moves the ball and refreshes
\* the ball's CollidingEntities
PhysicsStep ==
    /\ stage = "PostUpdate"
    /\ "physics" \notin ran
    /\ \E t \in PhysSteps :
          LET b == Integrate([pos |-> ball_pos, vel |-> ball_vel], t, paddle_y)
          IN  /\ Abs(b.pos[1]) <= MaxBallX
              /\ Abs(ball_vel[1]) <= MaxSpeed
              /\ ball_pos' = b.pos
              /\ ball_vel' = b.vel
              /\ touching' = Overlaps(b.pos, paddle_y)
    /\ ran' = ran \cup {"physics"}
    /\ stepped' = ("reset_ball" \in ran)
    /\ pre' = <<>>
    /\ UNCHANGED <<paddle_y, ball_color, Score, texts, events, cursor, stage, space,
                   seen, sent, score0, gained, moved, alive>>

\* Events::update, run in First: the older buffer is dropped and the newer
\* one becomes the older one; a reader's position is kept
UpdateEvents(evs) ==
    LET kept == SelectSeq(evs, LAMBDA e : e.age = 0)
    IN  [i \in 1..Len(kept) |-> [kept[i] EXCEPT !.age = 1]]

Dropped(evs) == Len(SelectSeq(evs, LAMBDA e : e.age # 0))

\* the frame is over and the next one starts
NextFrame ==
    /\ stage = "PostUpdate"
    /\ ran = PostUpdateSystems
    /\ events' = UpdateEvents(events)
    /\ cursor' = [r \in Consumers |->
                     IF cursor[r] > Dropped(events) THEN cursor[r] - Dropped(events) ELSE 0]
    /\ stage' = "Update"
    /\ ran' = {}
    /\ space' = FALSE
    /\ seen' = {}
    /\ sent' = <<>>
    /\ score0' = Score
    /\ stepped' = FALSE
    /\ pre' = <<>>
    /\ UNCHANGED <<paddle_y, ball_pos, ball_vel, ball_color, touching, Score, texts,
                   gained, moved, alive>>

Next ==
    \/ MovePaddle
    \/ DetectReset
    \/ BallHit
    \/ EndUpdate
    \/ RunResetBall
    \/ RunScore
    \/ PhysicsStep
    \/ NextFrame

Spec == Init /\ [][Next]_vars

\* ------------------------------------------- one frame from any world state

\* The systems are functions of the world they are run on.  FrameSpec runs
\* the systems of one frame (without the physics step) on a world drawn from
\* the samples below: any set of touched entities the physics step may report,
\* a ball anywhere, and a queue that may already hold events of this frame.
TouchSamples == SUBSET (Goals \cup PaddleEntities \cup {"WallTop"})
BallPosSamples == {<<-300, 0, 1>>, <<640, 120, 1>>}
BallVelSamples == {<<100, 0>>, <<-144, 60>>}
ScoreSamples == {<<>>, ("Player2" :> 1)}
QueueSamples ==
    {<<>>,
     <<ResetBall("Player1"), ResetBall("Player2")>>,
     <<ResetBall("Player2"), GainPoint("Player2"), ResetBall("Player1")>>}

InitFrame ==
    /\ paddle_y = [e \in PaddleEntities |-> 0]
    /\ ball_pos \in BallPosSamples
    /\ ball_vel \in BallVelSamples
    /\ ball_color = "WHITE"
    /\ touching \in TouchSamples
    /\ Score \in ScoreSamples
    /\ texts = <<[owner |-> "Player1", value |-> I32ToString(GetScore(Score, "Player1"))],
                 [owner |-> "Player2", value |-> I32ToString(GetScore(Score, "Player2"))]>>
    /\ events \in {Sent(q) : q \in QueueSamples}
    /\ cursor = [r \in Consumers |-> 0]
    /\ stage = "Update"
    /\ ran = {}
    /\ space = FALSE
    /\ seen = {}
    /\ sent = <<>>
    /\ score0 = Score
    /\ gained = [p \in Players |-> 0]
    /\ stepped = FALSE
    /\ pre = <<>>
    /\ moved = <<>>
    /\ alive = Spawned

NextOneFrame ==
    \/ MovePaddle
    \/ DetectReset
    \/ BallHit
    \/ EndUpdate
    \/ RunResetBall
    \/ RunScore

FrameSpec == InitFrame /\ [][NextOneFrame]_vars

\* ------------------------------------------ move_paddle on any paddle pair

\* PaddleSpec runs move_paddle once, with any keys held, on paddles drawn
\* from the samples below, and logs what the system read.  The frame times
\* are those of DefaultPlugins' clock: Time<Virtual> hands a system at most
\* its max_delta of 0.25 s per frame, and a frame after the first takes a
\* positive time.
FrameTimes == {1, 10, 25}
PaddleYSamples == {-285, -275, 0, 270, 285}

InitPaddle ==
    /\ paddle_y \in [PaddleEntities -> PaddleYSamples]
    /\ ball_pos = <<-300, 0, 1>>
    /\ ball_vel = <<100, 0>>
    /\ ball_color = "WHITE"
    /\ touching = {}
    /\ Score = <<>>
    /\ texts = <<[owner |-> "Player1", value |-> "0"], [owner |-> "Player2", value |-> "0"]>>
    /\ events = <<>>
    /\ cursor = [r \in Consumers |-> 0]
    /\ stage = "Update"
    /\ ran = {}
    /\ space = FALSE
    /\ seen = {}
    /\ sent = <<>>
    /\ score0 = Score
    /\ gained = [p \in Players |-> 0]
    /\ stepped = FALSE
    /\ pre = <<>>
    /\ moved = <<>>
    /\ alive = Spawned

\* move_paddle, logged
MovePaddleLogged ==
    \E held \in SUBSET PaddleKeys, dt \in FrameTimes :
        /\ MovePaddleWith(held, dt)
        /\ moved' = [y0 |-> paddle_y, held |-> held, dt |-> dt]

PaddleSpec == InitPaddle /\ [][MovePaddleLogged]_vars

\* ------------------------------------ the consumers on any set of displays

\* ScoreSpec runs reset_ball and score on the events detect_reset sends for
\* the goal sensors touched, in a world whose (Text, Player) entities are
\* drawn from the samples below: both displays, one of them, or none.
DisplaySamples ==
    {<<"Player1", "Player2">>, <<"Player1">>, <<"Player2">>, <<>>}

InitScore ==
    /\ paddle_y = [e \in PaddleEntities |-> 0]
    /\ ball_pos = <<640, 120, 1>>
    /\ ball_vel = <<100, 0>>
    /\ ball_color = "WHITE"
    /\ touching \in SUBSET Goals
    /\ Score \in ScoreSamples
    /\ \E d \in DisplaySamples :
          texts = [i \in 1..Len(d) |->
                      [owner |-> d[i], value |-> I32ToString(GetScore(Score, d[i]))]]
    /\ \E hits \in Orders(touching) :
          /\ events = Sent(DetectResetEvents(FALSE, hits))
          /\ sent = DetectResetEvents(FALSE, hits)
    /\ cursor = [r \in Consumers |-> 0]
    /\ stage = "Update"
    /\ ran = UpdateSystems
    /\ space = FALSE
    /\ seen = touching
    /\ score0 = Score
    /\ gained = [p \in Players |-> 0]
    /\ stepped = FALSE
    /\ pre = <<>>
    /\ moved = <<>>
    /\ alive = Spawned

NextScore ==
    \/ EndUpdate
    \/ RunResetBall
    \/ RunScore

ScoreSpec == InitScore /\ [][NextScore]_vars

\* ---------------------------------------------------------------- claims

\* detect_reset has run in the current frame
DetectDone == stage = "PostUpdate" \/ "detect_reset" \in ran
\* reset_ball and score have both run in the current frame
ConsumersDone == stage = "PostUpdate" /\ Consumers \subseteq ran
\* the events sent in the current frame
ThisFrame == SelectSeq(events, LAMBDA e : e.age = 0)
Has(evs, e) == \E i \in 1..Len(evs) : evs[i] = e
Origin == <<0, 0, 0>>

\* C1: in a frame in which Space is not freshly pressed and the ball's
\* touching set holds the goal sensor tagged P, detect_reset sends ResetBall(P)
\* and GainPoint(P); once reset_ball and score have run in that frame Score[P]
\* is one more than at the start of the frame, and the ball is at the origin
\* with P's serve velocity (until the physics step integrates the serve).
C1_GoalTouchScoresAndServes ==
    \A g \in Goals :
        (DetectDone /\ ~space /\ g \in seen) =>
            /\ Has(sent, ResetBall(GoalPlayer(g)))
            /\ Has(sent, GainPoint(GoalPlayer(g)))
            /\ ConsumersDone =>
                  GetScore(Score, GoalPlayer(g)) = GetScore(score0, GoalPlayer(g)) + 1
            /\ (ConsumersDone /\ ~stepped) =>
                  (ball_pos = Origin /\ ball_vel = StartSpeed(GoalPlayer(g)))

C1_Witness ==
    /\ ConsumersDone /\ ~space /\ ~stepped
    /\ "Goal1" \in seen
    /\ sent = <<ResetBall("Player1"), GainPoint("Player1")>>
    /\ GetScore(score0, "Player1") = 0
    /\ GetScore(Score, "Player1") = 1
    /\ ball_pos = Origin
    /\ ball_vel = <<100, 0>>

\* C2: for each player P, Score[P] is the number of GainPoint(P) events the
\* score system has processed (0 at startup); Score[P] never decreases, a
\* step changes it by the number of GainPoint(P) events the score system
\* reads in that step, and only a step of the score system changes Score.
C2_ScoreCountsGainPoints ==
    /\ [](\A p \in Players : GetScore(Score, p) = gained[p])
    /\ [][/\ \A p \in Players :
                /\ GetScore(Score', p) >= GetScore(Score, p)
                /\ GetScore(Score', p) - GetScore(Score, p)
                      = IF "score" \in ran' /\ "score" \notin ran
                        THEN Gains(Payloads(Unread("score")), p) ELSE 0
          /\ Score' # Score => ("score" \in ran' /\ "score" \notin ran)]_vars

C2_Witness ==
    /\ GetScore(Score, "Player1") = 2
    /\ GetScore(Score, "Player2") = 1
    /\ gained = [p \in Players |-> IF p = "Player1" THEN 2 ELSE 1]

\* C3: in a frame in which Space is freshly pressed, detect_reset sends
\* ResetBall(Player1) and nothing else, whatever the ball touches; the frame
\* leaves Score as it was (when its queue holds nothing but what detect_reset
\* sent) and the ball at the origin with velocity (100, 0).
C3_ManualResetOnly ==
    (DetectDone /\ space) =>
        /\ sent = <<ResetBall("Player1")>>
        /\ ConsumersDone => (ball_pos = Origin /\ ball_vel = <<100, 0>>)
        /\ (ConsumersDone /\ Payloads(ThisFrame) = sent) => Score = score0

C3_Witness ==
    /\ ConsumersDone /\ space
    /\ Goals \subseteq seen
    /\ Payloads(ThisFrame) = <<ResetBall("Player1")>>
    /\ Score = score0
    /\ ball_pos = Origin
    /\ ball_vel = <<100, 0>>
    /\ pre.pos # Origin

\* the events sent in the frame before the current one
LastFrame == SelectSeq(events, LAMBDA e : e.age = 1)

\* C4: a contact of the ball with a goal sensor scores one point: once
\* reset_ball has reset the ball for a contact with the sensor tagged P, the
\* next frame sends no further GainPoint(P), in whichever order the physics
\* step and reset_ball ran.
C4_OnePointPerContact ==
    \A p \in Players :
        (\E i \in 1..Len(LastFrame) :
            /\ LastFrame[i].kind = "ResetBall"
            /\ LastFrame[i].player = p
            /\ LastFrame[i].nR = 1
            /\ Has(Payloads(LastFrame), GainPoint(p)))
        => ~Has(sent, GainPoint(p))

\* C5: each paddle's vertical position stays within [-285, +285], for any
\* keys held and any frame time.
C5_PaddleInPlayfield ==
    \A e \in PaddleEntities : paddle_y[e] >= -285 /\ paddle_y[e] <= 285

C5_Witness ==
    /\ paddle_y["Paddle1"] = 285
    /\ paddle_y["Paddle2"] = -285
    /\ "move_paddle" \in ran

\* the ResetBall events among evs
Resets(evs) == SelectSeq(evs, LAMBDA e : e.kind = "ResetBall")

\* a step of reset_ball
ResetBallStep == "reset_ball" \notin ran /\ "reset_ball" \in ran'

\* C6: a step of reset_ball that processes a ResetBall(P) event (and no other
\* ResetBall) leaves the ball at (0,0,0) with P's serve velocity, whatever
\* its position and velocity were; no step of reset_ball changes the ball's
\* colour, Score, the score texts or the paddle positions, and one that
\* processes no ResetBall leaves the ball as it was.
C6_ResetBallSetsBallOnly ==
    [][ResetBallStep =>
          /\ \A p \in Players :
                Payloads(Resets(Unread("reset_ball"))) = <<ResetBall(p)>> =>
                    (ball_pos' = Origin /\ ball_vel' = StartSpeed(p))
          /\ Resets(Unread("reset_ball")) = <<>> =>
                    (ball_pos' = ball_pos /\ ball_vel' = ball_vel)
          /\ UNCHANGED <<ball_color, Score, texts, paddle_y, touching>>]_vars

C6_Witness ==
    /\ "reset_ball" \in ran
    /\ Payloads(Resets(ThisFrame)) = <<ResetBall("Player2")>>
    /\ pre # <<>>
    /\ pre.pos = <<640, 120, 1>>
    /\ pre.vel = <<-144, 60>>
    /\ ball_pos = Origin
    /\ ball_vel = <<-100, 0>>

\* C7: when reset_ball processes several ResetBall events in one frame the
\* ball ends with the serve velocity of the player of the last one: for the
\* queue [ResetBall(Player1), ResetBall(Player2)] that is (-100, 0).
C7_LastResetBallWins ==
    ("reset_ball" \in ran /\ Resets(ThisFrame) # <<>>) =>
        /\ ball_pos = Origin
        /\ ball_vel = StartSpeed(Resets(ThisFrame)[Len(Resets(ThisFrame))].player)
        /\ Payloads(ThisFrame) = <<ResetBall("Player1"), ResetBall("Player2")>>
              => ball_vel = <<-100, 0>>

C7_Witness ==
    /\ "reset_ball" \in ran
    /\ Payloads(ThisFrame) = <<ResetBall("Player1"), ResetBall("Player2")>>
    /\ pre # <<>>
    /\ pre.vel = <<100, 0>>
    /\ ball_vel = <<-100, 0>>

\* C8: in each frame detect_reset runs before reset_ball and score; each of
\* the two consumers handles every event of the frame once in that frame, and
\* handles no event in a later frame.
C8_EventsConsumedInFrame ==
    /\ (ran \cap Consumers # {}) => (stage = "PostUpdate" /\ DetectDone)
    /\ \A i \in 1..Len(events) :
          /\ events[i].nR <= 1 /\ events[i].nS <= 1
          /\ events[i].age >= 1 => (events[i].nR = 1 /\ events[i].nS = 1)
          /\ ("reset_ball" \in ran /\ stage = "PostUpdate") => events[i].nR = 1
          /\ ("score" \in ran /\ stage = "PostUpdate") => events[i].nS = 1

C8_Witness ==
    /\ ConsumersDone
    /\ Len(LastFrame) = 1
    /\ Len(ThisFrame) = 2
    /\ \A i \in 1..Len(events) : events[i].nR = 1 /\ events[i].nS = 1

\* C9: whichever of reset_ball and score runs first, the frame ends in the
\* state that reset_ball's function and score's function of the frame's queue
\* give from the state at the end of Update.
C9_ConsumersCommute ==
    (ConsumersDone /\ pre # <<>>) =>
        /\ [pos |-> ball_pos, vel |-> ball_vel]
              = ResetBallAll([pos |-> pre.pos, vel |-> pre.vel], Payloads(ThisFrame))
        /\ [score |-> Score, texts |-> texts]
              = ScoreAll([score |-> pre.score, texts |-> pre.texts], Payloads(ThisFrame))

C9_Witness ==
    /\ ConsumersDone
    /\ pre # <<>>
    /\ Len(ThisFrame) = 5
    /\ ball_pos = Origin /\ pre.pos # Origin
    /\ GetScore(Score, "Player2") = GetScore(pre.score, "Player2") + 2
    /\ texts # pre.texts

\* C10: when Space is not freshly pressed detect_reset sends, for every goal
\* sensor in the ball's touching set, the pair ResetBall(P), GainPoint(P) of
\* its player: four events when both sensors are touched, and then both
\* players' scores are one more at the end of the frame than at its start.
C10_EveryTouchedGoalScores ==
    (DetectDone /\ ~space) =>
        /\ Len(sent) = 2 * Cardinality(seen \cap Goals)
        /\ \A g \in seen \cap Goals :
              \E i \in 1..Len(sent) :
                  /\ i % 2 = 1
                  /\ sent[i] = ResetBall(GoalPlayer(g))
                  /\ sent[i + 1] = GainPoint(GoalPlayer(g))
        /\ (ConsumersDone /\ Payloads(ThisFrame) = sent) =>
              \A p \in Players :
                  GetScore(Score, p) = GetScore(score0, p) + Gains(sent, p)

C10_Witness ==
    /\ ConsumersDone /\ ~space
    /\ Goals \subseteq seen
    /\ Len(sent) = 4
    /\ Payloads(ThisFrame) = sent
    /\ \A p \in Players : GetScore(Score, p) = GetScore(score0, p) + 1

\* the touching set the Update systems of the current frame read
FrameTouching == IF stage = "Update" THEN touching ELSE seen
\* ball_hit has run in the current frame
BallHitDone == stage = "PostUpdate" \/ "ball_hit" \in ran
\* a step of one of ball_hit, detect_reset, reset_ball and score
GameSystemStep ==
    \E s \in {"ball_hit", "detect_reset", "reset_ball", "score"} :
        s \notin ran /\ s \in ran'

\* C11: in a frame in which the ball touches one paddle and nothing else,
\* ball_hit leaves the ball in the colour of that paddle's player and, when
\* Space is not freshly pressed, detect_reset sends no event; in such a frame
\* the steps of ball_hit, detect_reset, reset_ball and score leave Score and
\* the ball's position and velocity as they were; and every change of the
\* ball's colour is to the colour of a player whose paddle the ball touches.
C11_PaddleTouchRecoloursOnly ==
    /\ [](\A e \in PaddleEntities :
            FrameTouching = {e} =>
                /\ BallHitDone => ball_color = GetColour(PaddlePlayer(e))
                /\ (DetectDone /\ ~space) => sent = <<>>)
    /\ [][/\ (/\ \E e \in PaddleEntities : FrameTouching = {e}
               /\ ~space'
               /\ GameSystemStep)
                  => UNCHANGED <<Score, ball_pos, ball_vel>>
          /\ ball_color' # ball_color =>
                \E e \in touching \cap PaddleEntities :
                    ball_color' = GetColour(PaddlePlayer(e))]_vars

C11_Witness ==
    /\ ConsumersDone /\ ~space
    /\ seen = {"Paddle2"}
    /\ sent = <<>>
    /\ ball_color = "GREEN"
    /\ Score = score0

\* C12: when move_paddle runs with both keys of a paddle held, on position y
\* and with step d = 100 x the frame time, the paddle ends at
\* clamp(clamp(y + d) - d), clamped to [-285, 285]: where it was when
\* y + d <= 285; at 285 - d, below the bound, when it was at 285; and at -285
\* when it was at -285.
C12_BothKeysHeld ==
    moved # <<>> =>
        \A e \in PaddleEntities :
            (MoveUpKey(e) \in moved.held /\ MoveDownKey(e) \in moved.held) =>
                LET y == moved.y0[e]
                    d == (100 * moved.dt) \div 100
                IN  /\ paddle_y[e] = Clamp(Clamp(y + d, -285, 285) - d, -285, 285)
                    /\ y + d <= 285 => paddle_y[e] = y
                    /\ y = 285 => (paddle_y[e] = 285 - d /\ paddle_y[e] < 285)
                    /\ y = -285 => paddle_y[e] = -285

C12_Witness ==
    /\ moved # <<>>
    /\ {"KeyW", "KeyS", "ArrowUp", "ArrowDown"} \subseteq moved.held
    /\ moved.dt = 25
    /\ moved.y0["Paddle1"] = 285 /\ paddle_y["Paddle1"] = 260
    /\ moved.y0["Paddle2"] = 270 /\ paddle_y["Paddle2"] = 260

\* the (Text, Player) entities among ts that carry the tag player
Displays(ts, player) == {i \in 1..Len(ts) : ts[i].owner = player}

\* C13: when score processes GainPoint(P) and no (Text, Player) entity carries
\* the tag P, Score[P] still goes up by one for each GainPoint(P), no display
\* of another player is written for it, and the events after it are
\* processed: every player's Score goes up by the number of its GainPoint
\* events of the frame, and a display changes only to show its own player's
\* new Score.
C13_ScoreWithoutDisplay ==
    ("score" \in ran /\ stage = "PostUpdate" /\ pre # <<>>) =>
        /\ \A p \in Players :
              GetScore(Score, p) = GetScore(pre.score, p) + Gains(Payloads(ThisFrame), p)
        /\ Len(texts) = Len(pre.texts)
        /\ \A i \in 1..Len(texts) :
              texts[i] =
                  IF Gains(Payloads(ThisFrame), pre.texts[i].owner) > 0
                  THEN [owner |-> pre.texts[i].owner,
                        value |-> I32ToString(GetScore(Score, pre.texts[i].owner))]
                  ELSE pre.texts[i]

C13_Witness ==
    /\ "score" \in ran /\ stage = "PostUpdate" /\ pre # <<>>
    /\ Displays(pre.texts, "Player1") = {}
    /\ Payloads(ThisFrame) = <<ResetBall("Player1"), GainPoint("Player1"),
                               ResetBall("Player2"), GainPoint("Player2")>>
    /\ GetScore(pre.score, "Player1") = 0 /\ GetScore(Score, "Player1") = 1
    /\ GetScore(pre.score, "Player2") = 1 /\ GetScore(Score, "Player2") = 2
    /\ pre.texts = <<[owner |-> "Player2", value |-> "1"]>>
    /\ texts = <<[owner |-> "Player2", value |-> "2"]>>

\* the other player
Opponent(player) == IF player = "Player1" THEN "Player2" ELSE "Player1"
\* the paddle at the same playfield edge as the goal sensor g
Defender(g) == CHOOSE e \in PaddleEntities : GoalX(g) * PaddleX(e) > 0

\* C14: when Space is not freshly pressed and the ball is in the touching
\* set of the goal sensor at the edge that player X's paddle stands at (the
\* left edge for the paddle at -620, the right edge for the paddle at +620),
\* detect_reset sends GainPoint for the other player and none for X.
C14_OpponentScores ==
    /\ PaddleX("Paddle1") = -620 /\ PaddleX("Paddle2") = 620
    /\ \A g \in Goals :
          (DetectDone /\ ~space /\ g \in seen) =>
              /\ Has(sent, GainPoint(Opponent(PaddlePlayer(Defender(g)))))
              /\ ~Has(sent, GainPoint(PaddlePlayer(Defender(g))))

C14_Witness ==
    /\ ConsumersDone /\ ~space
    /\ seen = {"Goal2"}
    /\ GoalX("Goal2") < 0
    /\ PaddlePlayer(Defender("Goal2")) = "Player1"
    /\ sent = <<ResetBall("Player2"), GainPoint("Player2")>>
    /\ GetScore(Score, "Player2") = GetScore(score0, "Player2") + 1

\* C15, as claimed: for each player P the goal sensor tagged P is at the
\* playfield edge on the side of the paddle tagged P (same sign of x), so
\* the ball overlaps the sensor tagged P on the side of P's paddle.
C15_SensorOnOwnSide ==
    \A g \in Goals, e \in PaddleEntities :
        (PaddlePlayer(e) = GoalPlayer(g) /\ g \in Overlaps(ball_pos, paddle_y)) =>
            /\ GoalX(g) * PaddleX(e) > 0
            /\ ball_pos[1] * PaddleX(e) > 0

\* C15, amended: for each player P the goal sensor tagged P is at the
\* playfield edge opposite to the paddle tagged P (opposite sign of x), so
\* the ball overlaps the sensor tagged P only on the side away from P's
\* paddle.
C15_SensorOppositeOwnPaddle ==
    \A g \in Goals, e \in PaddleEntities :
        PaddlePlayer(e) = GoalPlayer(g) =>
            /\ GoalX(g) * PaddleX(e) < 0
            /\ g \in Overlaps(ball_pos, paddle_y) => ball_pos[1] * PaddleX(e) < 0

C15_Witness ==
    /\ "Goal1" \in Overlaps(ball_pos, paddle_y)
    /\ "Goal1" \in touching
    /\ GoalPlayer("Goal1") = "Player1"
    /\ ball_pos[1] > 0
    /\ PaddleX("Paddle1") < 0

\* C16: in every reachable state there is one Ball entity and one Paddle
\* entity per player, and the paddles that have a position are those
\* entities: no system spawns or despawns a ball or a paddle, and a step of
\* reset_ball leaves the entities as they are.
C16_OneBallOnePaddlePerPlayer ==
    /\ [](/\ Cardinality(alive \cap BallEntities) = 1
          /\ \A p \in Players :
                Cardinality({e \in alive \cap PaddleEntities : PaddlePlayer(e) = p}) = 1
          /\ DOMAIN paddle_y = alive \cap PaddleEntities)
    /\ [][alive' = alive]_vars

C16_Witness ==
    /\ "reset_ball" \in ran /\ stage = "PostUpdate"
    /\ Resets(ThisFrame) # <<>>
    /\ ball_pos = Origin
    /\ alive \cap BallEntities = {"Ball"}
    /\ alive \cap PaddleEntities = {"Paddle1", "Paddle2"}

\* C17: in every state, and so at the end of every frame, each player P has
\* a score display and every display tagged P shows Score[P] in decimal ("0"
\* while P has no entry in Score), also after several GainPoint events for
\* the same player and for different players in one frame.
C17_DisplayShowsScore ==
    /\ \A p \in Players : Displays(texts, p) # {}
    /\ \A i \in 1..Len(texts) :
          texts[i].value = I32ToString(GetScore(Score, texts[i].owner))

C17_Witness ==
    /\ ConsumersDone
    /\ score0 = <<>>
    /\ Gains(Payloads(ThisFrame), "Player1") = 1
    /\ Gains(Payloads(ThisFrame), "Player2") = 2
    /\ Score = [p \in Players |-> IF p = "Player1" THEN 1 ELSE 2]
    /\ texts = <<[owner |-> "Player1", value |-> "1"],
                 [owner |-> "Player2", value |-> "2"]>>

\* some player's Score has gone up in the current frame
ScoreWentUp ==
    /\ stage = "PostUpdate" /\ "score" \in ran
    /\ \E p \in Players : GetScore(Score, p) > GetScore(score0, p)

\* C18: every GainPoint(P) in the event queue comes right after a
\* ResetBall(P) sent in the same frame; and in a frame in which some player's
\* Score goes up, the frame's queue holds a ResetBall, reset_ball processes
\* every ResetBall of the frame and leaves the ball at the origin with a
\* serve velocity of (100, 0) or (-100, 0) (until the physics step
\* integrates the serve).
C18_NoPointWithoutReset ==
    /\ \A i \in 1..Len(events) :
          events[i].kind = "GainPoint" =>
              /\ i > 1
              /\ Payload(events[i - 1]) = ResetBall(events[i].player)
              /\ events[i - 1].age = events[i].age
    /\ ScoreWentUp =>
          /\ Resets(ThisFrame) # <<>>
          /\ "reset_ball" \in ran =>
                /\ \A i \in 1..Len(Resets(ThisFrame)) : Resets(ThisFrame)[i].nR = 1
                /\ ~stepped =>
                      /\ ball_pos = <<0, 0, 0>>
                      /\ ball_vel \in {<<100, 0>>, <<-100, 0>>}

C18_Witness ==
    /\ ScoreWentUp /\ "reset_ball" \in ran /\ ~stepped
    /\ Payloads(ThisFrame) = <<ResetBall("Player2"), GainPoint("Player2")>>
    /\ GetScore(Score, "Player2") = GetScore(score0, "Player2") + 1
    /\ pre # <<>>
    /\ pre.pos # <<0, 0, 0>>
    /\ ball_pos = <<0, 0, 0>>
    /\ ball_vel = <<-100, 0>>

====
